---- MODULE Spec2Model ----
(***************************************************************************)
(* z5 filesystem factory (include/z5/filesystem/factory.hxx): openDataset, *)
(* createDataset, createFile and createGroup, run by callers against a     *)
(* shared storage of locations.  Every collaborator call of a factory      *)
(* function (exists, create, readMetadata, writeMetadata, the Dataset<T>   *)
(* constructor) is one step of the calling process, so that callers        *)
(* interleave between the calls; writeMetadata is two steps, the file      *)
(* being incomplete in between.                                            *)
(***************************************************************************)
EXTENDS Integers, Sequences, FiniteSets, TLC

\* ------------------------------------------------------------------ bounds
\* The callers that run concurrently.
NumProcs == 2

Procs == 1..NumProcs

\* The two callers of the runs on locations of their own, and the caller of
\* the runs of one caller.
Pair == {1, 2}
Single == 1

\* The locations: each caller of Pair has one of its own, and the first is
\* the one the concurrent callers share.
Locs == {1, 2}
Home(p) == IF p \in Locs THEN p ELSE 1
Shared == 1

\* ------------------------------------------------- element types (dtype)
\* The enumerators of types::Datatype in the order of the switch.
TagNames ==
    << "int8", "int16", "int32", "int64",
       "uint8", "uint16", "uint32", "uint64",
       "float32", "float64", "complex64", "complex128",
       "unicode1", "unicode2", "unicode3", "unicode4", "unicode5",
       "unicode6", "unicode7", "unicode8", "unicode9", "unicode10" >>

Tags == 1..Len(TagNames)

\* The enumerator called name.
Tag(name) == CHOOSE t \in Tags : TagNames[t] = name

\* A DatasetMetadata whose dtype has not been read.
NoTag == 0

\* A null std::unique_ptr<z5::Dataset>.
NullPtr == "nullptr"

\* No pointer was returned (the call is running, threw, or returns void).
NoHandle == "none"

\* The switch of openDataset with the float32 case constructing what the
\* float64 case constructs.
OpenSwitch_Float32AsDouble(dtype) ==
    CASE dtype = Tag("int8") -> "int8_t"
      [] dtype = Tag("int16") -> "int16_t"
      [] dtype = Tag("int32") -> "int32_t"
      [] dtype = Tag("int64") -> "int64_t"
      [] dtype = Tag("uint8") -> "uint8_t"
      [] dtype = Tag("uint16") -> "uint16_t"
      [] dtype = Tag("uint32") -> "uint32_t"
      [] dtype = Tag("uint64") -> "uint64_t"
      [] dtype = Tag("float32") -> "double"
      [] dtype = Tag("float64") -> "double"
      [] dtype = Tag("complex64") -> "std::complex<float>"
      [] dtype = Tag("complex128") -> "std::complex<double>"
      [] dtype = Tag("unicode1") -> "UTF32Array<1>"
      [] dtype = Tag("unicode2") -> "UTF32Array<2>"
      [] dtype = Tag("unicode3") -> "UTF32Array<3>"
      [] dtype = Tag("unicode4") -> "UTF32Array<4>"
      [] dtype = Tag("unicode5") -> "UTF32Array<5>"
      [] dtype = Tag("unicode6") -> "UTF32Array<6>"
      [] dtype = Tag("unicode7") -> "UTF32Array<7>"
      [] dtype = Tag("unicode8") -> "UTF32Array<8>"
      [] dtype = Tag("unicode9") -> "UTF32Array<9>"
      [] dtype = Tag("unicode10") -> "UTF32Array<10>"
      [] OTHER -> NullPtr

\* The switch of openDataset: the element type T of the Dataset<T> that
\* ptr is reset to; there is no default case, ptr stays null.
OpenSwitch(dtype) ==
    CASE dtype = Tag("int8") -> "int8_t"
      [] dtype = Tag("int16") -> "int16_t"
      [] dtype = Tag("int32") -> "int32_t"
      [] dtype = Tag("int64") -> "int64_t"
      [] dtype = Tag("uint8") -> "uint8_t"
      [] dtype = Tag("uint16") -> "uint16_t"
      [] dtype = Tag("uint32") -> "uint32_t"
      [] dtype = Tag("uint64") -> "uint64_t"
      [] dtype = Tag("float32") -> "float"
      [] dtype = Tag("float64") -> "double"
      [] dtype = Tag("complex64") -> "std::complex<float>"
      [] dtype = Tag("complex128") -> "std::complex<double>"
      [] dtype = Tag("unicode1") -> "UTF32Array<1>"
      [] dtype = Tag("unicode2") -> "UTF32Array<2>"
      [] dtype = Tag("unicode3") -> "UTF32Array<3>"
      [] dtype = Tag("unicode4") -> "UTF32Array<4>"
      [] dtype = Tag("unicode5") -> "UTF32Array<5>"
      [] dtype = Tag("unicode6") -> "UTF32Array<6>"
      [] dtype = Tag("unicode7") -> "UTF32Array<7>"
      [] dtype = Tag("unicode8") -> "UTF32Array<8>"
      [] dtype = Tag("unicode9") -> "UTF32Array<9>"
      [] dtype = Tag("unicode10") -> "UTF32Array<10>"
      [] OTHER -> NullPtr

\* The switch of createDataset without its unicode10 case.
CreateSwitch_NoUnicode10(dtype) ==
    CASE dtype = Tag("int8") -> "int8_t"
      [] dtype = Tag("int16") -> "int16_t"
      [] dtype = Tag("int32") -> "int32_t"
      [] dtype = Tag("int64") -> "int64_t"
      [] dtype = Tag("uint8") -> "uint8_t"
      [] dtype = Tag("uint16") -> "uint16_t"
      [] dtype = Tag("uint32") -> "uint32_t"
      [] dtype = Tag("uint64") -> "uint64_t"
      [] dtype = Tag("float32") -> "float"
      [] dtype = Tag("float64") -> "double"
      [] dtype = Tag("complex64") -> "std::complex<float>"
      [] dtype = Tag("complex128") -> "std::complex<double>"
      [] dtype = Tag("unicode1") -> "UTF32Array<1>"
      [] dtype = Tag("unicode2") -> "UTF32Array<2>"
      [] dtype = Tag("unicode3") -> "UTF32Array<3>"
      [] dtype = Tag("unicode4") -> "UTF32Array<4>"
      [] dtype = Tag("unicode5") -> "UTF32Array<5>"
      [] dtype = Tag("unicode6") -> "UTF32Array<6>"
      [] dtype = Tag("unicode7") -> "UTF32Array<7>"
      [] dtype = Tag("unicode8") -> "UTF32Array<8>"
      [] dtype = Tag("unicode9") -> "UTF32Array<9>"
      [] OTHER -> NullPtr

\* The switch of createDataset.
CreateSwitch(dtype) ==
    CASE dtype = Tag("int8") -> "int8_t"
      [] dtype = Tag("int16") -> "int16_t"
      [] dtype = Tag("int32") -> "int32_t"
      [] dtype = Tag("int64") -> "int64_t"
      [] dtype = Tag("uint8") -> "uint8_t"
      [] dtype = Tag("uint16") -> "uint16_t"
      [] dtype = Tag("uint32") -> "uint32_t"
      [] dtype = Tag("uint64") -> "uint64_t"
      [] dtype = Tag("float32") -> "float"
      [] dtype = Tag("float64") -> "double"
      [] dtype = Tag("complex64") -> "std::complex<float>"
      [] dtype = Tag("complex128") -> "std::complex<double>"
      [] dtype = Tag("unicode1") -> "UTF32Array<1>"
      [] dtype = Tag("unicode2") -> "UTF32Array<2>"
      [] dtype = Tag("unicode3") -> "UTF32Array<3>"
      [] dtype = Tag("unicode4") -> "UTF32Array<4>"
      [] dtype = Tag("unicode5") -> "UTF32Array<5>"
      [] dtype = Tag("unicode6") -> "UTF32Array<6>"
      [] dtype = Tag("unicode7") -> "UTF32Array<7>"
      [] dtype = Tag("unicode8") -> "UTF32Array<8>"
      [] dtype = Tag("unicode9") -> "UTF32Array<9>"
      [] dtype = Tag("unicode10") -> "UTF32Array<10>"
      [] OTHER -> NullPtr

\* --------------------------------------------- storage and its collaborators
\* The metadata record of a location as it lies in storage.
AbsentMeta == [state |-> "absent", kind |-> "none", dtype |-> "", zarr |-> FALSE]
PartialMeta == [state |-> "partial", kind |-> "none", dtype |-> "", zarr |-> FALSE]
DatasetRecord(s) == [state |-> "complete", kind |-> "dataset", dtype |-> s, zarr |-> FALSE]
GroupRecord(z) == [state |-> "complete", kind |-> "group", dtype |-> "", zarr |-> z]

\* The persisted dtype string of a tag, and the tag a string decodes to
\* (NoTag: the string is none of the tag strings).
EncodeDtype(t) == TagNames[t]
DecodeDtype(s) ==
    IF \E t \in Tags : TagNames[t] = s
    THEN CHOOSE t \in Tags : TagNames[t] = s
    ELSE NoTag

\* readMetadata(handle, metadata): the dtype read, or the failure.
ReadMetadata(m) ==
    IF m.state = "complete" /\ m.kind = "dataset" /\ DecodeDtype(m.dtype) # NoTag
    THEN [ok |-> TRUE, dtype |-> DecodeDtype(m.dtype), err |-> "none"]
    ELSE [ok |-> FALSE, dtype |-> NoTag, err |-> "MalformedMetadata"]

\* The record writeMetadata persists for a DatasetMetadata / for a Metadata.
WriteDatasetMetadata(dtype) == DatasetRecord(EncodeDtype(dtype))
WriteGroupMetadata(isZarr) == GroupRecord(isZarr)

VARIABLES
    node,     \* node[l]: the storage node of location l exists
    meta,     \* meta[l]: the metadata record stored at location l
    pc,       \* pc[p]: the next collaborator call of caller p
    op,       \* op[p]: the factory function p is in
    loc,      \* loc[p]: the handle (location) p passed
    arg,      \* arg[p]: the DatasetMetadata dtype / the isZarr flag p passed
    md,       \* md[p]: metadata.dtype of the local DatasetMetadata of openDataset
    result,   \* result[p]: "pending", "ok", or the failure thrown to the caller
    handle,   \* handle[p]: the element type of the Dataset returned to p
    trace,    \* trace[p]: the collaborator calls of p's current call, in order
    saw,      \* saw[p]: the record readMetadata found in storage
    pre,      \* pre[p]: node and metadata of loc[p] when p's call began
    prev      \* prev[p]: p's previous call and its outcome

vars == <<node, meta, pc, op, loc, arg, md, result, handle, trace, saw, pre, prev>>

NoArg == [dtype |-> NoTag, zarr |-> FALSE]
NotRead == [state |-> "unread", kind |-> "none", dtype |-> "", zarr |-> FALSE]
NoPrev == [op |-> "none", loc |-> 0, dtype |-> NoTag, result |-> "none"]

\* handle.exists() of a Dataset handle.
Exists(l) == node[l]

Log(p, e) == trace' = [trace EXCEPT ![p] = Append(@, e)]

\* How often the call e is in the log t, and whether t is a beginning of u.
Count(t, e) == Cardinality({i \in 1..Len(t) : t[i] = e})
IsPrefix(t, u) == Len(t) <= Len(u) /\ \A i \in 1..Len(t) : t[i] = u[i]

Throw(p, e) ==
    /\ result' = [result EXCEPT ![p] = e]
    /\ pc' = [pc EXCEPT ![p] = "ret"]

\* A caller enters a factory function.
Enter(p, f, l, a, first) ==
    /\ pc[p] \in {"idle", "ret"}
    /\ op' = [op EXCEPT ![p] = f]
    /\ loc' = [loc EXCEPT ![p] = l]
    /\ arg' = [arg EXCEPT ![p] = a]
    /\ pc' = [pc EXCEPT ![p] = first]
    /\ md' = [md EXCEPT ![p] = NoTag]
    /\ result' = [result EXCEPT ![p] = "pending"]
    /\ handle' = [handle EXCEPT ![p] = NoHandle]
    /\ trace' = [trace EXCEPT ![p] = <<>>]
    /\ saw' = [saw EXCEPT ![p] = NotRead]
    /\ UNCHANGED <<node, meta>>

\* What a caller remembers across its calls, when M says it keeps them: the
\* location as it was when the call began ("pre"), its previous call ("prev").
Remember(p, l, M) ==
    /\ pre' = IF "pre" \in M
              THEN [pre EXCEPT ![p] = [node |-> node[l], meta |-> meta[l]]]
              ELSE pre
    /\ prev' = IF "prev" \in M /\ pc[p] = "ret"
               THEN [prev EXCEPT ![p] = [op |-> op[p], loc |-> loc[p],
                                         dtype |-> arg[p].dtype, result |-> result[p]]]
               ELSE prev

Call_openDataset(p, l, M) ==
    /\ Enter(p, "openDataset", l, NoArg, "exists")
    /\ Remember(p, l, M)

Call_createDataset(p, l, dtype, M) ==
    /\ Enter(p, "createDataset", l, [dtype |-> dtype, zarr |-> FALSE], "create")
    /\ Remember(p, l, M)

Call_createFile(p, l, isZarr, M) ==
    /\ Enter(p, "createFile", l, [dtype |-> NoTag, zarr |-> isZarr], "create")
    /\ Remember(p, l, M)

Call_createGroup(p, l, isZarr, M) ==
    /\ Enter(p, "createGroup", l, [dtype |-> NoTag, zarr |-> isZarr], "create")
    /\ Remember(p, l, M)

\* ------------------------------------------------------------ openDataset
\* openDataset without the early throw: the read follows whatever exists() said.
OpenExists_NoThrow(p) ==
    /\ pc[p] = "exists"
    /\ Log(p, IF Exists(loc[p]) THEN "exists:true" ELSE "exists:false")
    /\ pc' = [pc EXCEPT ![p] = "read"]
    /\ UNCHANGED <<node, meta, op, loc, arg, md, result, handle, saw, pre, prev>>

\* if(!dataset.exists()) throw std::runtime_error(...)
OpenExists(p) ==
    /\ pc[p] = "exists"
    /\ IF ~Exists(loc[p])
       THEN /\ Log(p, "exists:false")
            /\ Throw(p, "NotFound")
       ELSE /\ Log(p, "exists:true")
            /\ pc' = [pc EXCEPT ![p] = "read"]
            /\ UNCHANGED result
    /\ UNCHANGED <<node, meta, op, loc, arg, md, handle, saw, pre, prev>>

\* openDataset swallowing the failure of readMetadata: the switch runs on
\* the default-constructed metadata.
OpenRead_Swallow(p) ==
    /\ pc[p] = "read"
    /\ Log(p, "read")
    /\ saw' = [saw EXCEPT ![p] = meta[loc[p]]]
    /\ md' = [md EXCEPT ![p] = ReadMetadata(meta[loc[p]]).dtype]
    /\ pc' = [pc EXCEPT ![p] = "dispatch"]
    /\ UNCHANGED <<node, meta, op, loc, arg, result, handle, pre, prev>>

\* openDataset going on with the default-constructed DatasetMetadata, of
\* the first dtype, when the record's dtype string decodes to no dtype.
OpenRead_DefaultDtype(p) ==
    /\ pc[p] = "read"
    /\ Log(p, "read")
    /\ saw' = [saw EXCEPT ![p] = meta[loc[p]]]
    /\ LET r == ReadMetadata(meta[loc[p]])
       IN IF r.ok \/ (meta[loc[p]].state = "complete" /\ meta[loc[p]].kind = "dataset")
          THEN /\ md' = [md EXCEPT ![p] = IF r.ok THEN r.dtype ELSE Tag("int8")]
               /\ pc' = [pc EXCEPT ![p] = "dispatch"]
               /\ UNCHANGED result
          ELSE /\ Throw(p, r.err)
               /\ UNCHANGED md
    /\ UNCHANGED <<node, meta, op, loc, arg, handle, pre, prev>>

\* DatasetMetadata metadata; readMetadata(dataset, metadata);
OpenRead(p) ==
    /\ pc[p] = "read"
    /\ Log(p, "read")
    /\ saw' = [saw EXCEPT ![p] = meta[loc[p]]]
    /\ LET r == ReadMetadata(meta[loc[p]])
       IN IF r.ok
          THEN /\ md' = [md EXCEPT ![p] = r.dtype]
               /\ pc' = [pc EXCEPT ![p] = "dispatch"]
               /\ UNCHANGED result
          ELSE /\ Throw(p, r.err)
               /\ UNCHANGED md
    /\ UNCHANGED <<node, meta, op, loc, arg, handle, pre, prev>>

\* switch(metadata.dtype) { ... } return ptr;
OpenDispatch(p) ==
    /\ pc[p] = "dispatch"
    /\ op[p] = "openDataset"
    /\ Log(p, "dispatch")
    /\ handle' = [handle EXCEPT ![p] = OpenSwitch(md[p])]
    /\ result' = [result EXCEPT ![p] = "ok"]
    /\ pc' = [pc EXCEPT ![p] = "ret"]
    /\ UNCHANGED <<node, meta, op, loc, arg, md, saw, pre, prev>>

\* ------------------------------------------- create() and writeMetadata()
\* handle.create(): the node exists afterwards, or the call throws and
\* storage is as it was.
StorageCreate(p, ok) ==
    /\ Log(p, "create")
    /\ IF ok
       THEN /\ node' = [node EXCEPT ![loc[p]] = TRUE]
            /\ pc' = [pc EXCEPT ![p] = "write"]
            /\ UNCHANGED result
       ELSE /\ Throw(p, "StorageFailure")
            /\ UNCHANGED node
    /\ UNCHANGED <<meta, op, loc, arg, md, handle, saw, pre, prev>>

\* writeMetadata opens the record for writing: it is incomplete until the
\* write ends; or the record cannot be opened and storage is as it was.
StorageWriteBegin(p, ok) ==
    /\ Log(p, "write_begin")
    /\ IF ok
       THEN /\ meta' = [meta EXCEPT ![loc[p]] = PartialMeta]
            /\ pc' = [pc EXCEPT ![p] = "writing"]
            /\ UNCHANGED result
       ELSE /\ Throw(p, "StorageFailure")
            /\ UNCHANGED meta
    /\ UNCHANGED <<node, op, loc, arg, md, handle, saw, pre, prev>>

\* writeMetadata ends: the record rec is complete in storage and the caller
\* goes on to next; or the write fails and leaves the record incomplete.
StorageWriteEnd(p, ok, rec, next) ==
    /\ IF ok
       THEN /\ Log(p, "write_end")
            /\ meta' = [meta EXCEPT ![loc[p]] = rec]
            /\ IF next = "ret"
               THEN result' = [result EXCEPT ![p] = "ok"]
               ELSE UNCHANGED result
            /\ pc' = [pc EXCEPT ![p] = next]
       ELSE /\ Throw(p, "StorageFailure")
            /\ UNCHANGED <<meta, trace>>
    /\ UNCHANGED <<node, op, loc, arg, md, handle, saw, pre, prev>>

\* ---------------------------------------------------------- createDataset
\* createDataset without its writeMetadata call: the switch follows create().
CreateCreate_SkipWrite(p) ==
    /\ pc[p] = "create"
    /\ op[p] = "createDataset"
    /\ \E ok \in BOOLEAN :
          /\ Log(p, "create")
          /\ IF ok
             THEN /\ node' = [node EXCEPT ![loc[p]] = TRUE]
                  /\ pc' = [pc EXCEPT ![p] = "dispatch"]
                  /\ UNCHANGED result
             ELSE /\ Throw(p, "StorageFailure")
                  /\ UNCHANGED node
          /\ UNCHANGED <<meta, op, loc, arg, md, handle, saw, pre, prev>>

\* createDataset swallowing the failure of create(): writeMetadata follows.
CreateCreate_Swallow(p) ==
    /\ pc[p] = "create"
    /\ op[p] = "createDataset"
    /\ \E ok \in BOOLEAN :
          /\ Log(p, "create")
          /\ node' = IF ok THEN [node EXCEPT ![loc[p]] = TRUE] ELSE node
          /\ pc' = [pc EXCEPT ![p] = "write"]
          /\ UNCHANGED <<meta, op, loc, arg, md, result, handle, saw, pre, prev>>

\* dataset.create();
CreateCreate(p) ==
    /\ pc[p] = "create"
    /\ op[p] = "createDataset"
    /\ \E ok \in BOOLEAN : StorageCreate(p, ok)

\* createDataset trying writeMetadata a second time when the first fails.
CreateWriteBegin_Retry(p) ==
    /\ pc[p] = "write"
    /\ op[p] = "createDataset"
    /\ \E ok \in BOOLEAN :
          IF ~ok /\ Count(trace[p], "write_begin") = 0
          THEN /\ Log(p, "write_begin")
               /\ UNCHANGED <<node, meta, pc, op, loc, arg, md, result, handle, saw, pre, prev>>
          ELSE StorageWriteBegin(p, ok)

\* writeMetadata(dataset, metadata);
CreateWriteBegin(p) ==
    /\ pc[p] = "write"
    /\ op[p] = "createDataset"
    /\ \E ok \in BOOLEAN : StorageWriteBegin(p, ok)

CreateWriteEnd(p) ==
    /\ pc[p] = "writing"
    /\ op[p] = "createDataset"
    /\ \E ok \in BOOLEAN :
          StorageWriteEnd(p, ok, WriteDatasetMetadata(arg[p].dtype), "dispatch")

\* switch(metadata.dtype) { ... } return ptr;
CreateDispatch(p) ==
    /\ pc[p] = "dispatch"
    /\ op[p] = "createDataset"
    /\ Log(p, "dispatch")
    /\ handle' = [handle EXCEPT ![p] = CreateSwitch(arg[p].dtype)]
    /\ result' = [result EXCEPT ![p] = "ok"]
    /\ pc' = [pc EXCEPT ![p] = "ret"]
    /\ UNCHANGED <<node, meta, op, loc, arg, md, saw, pre, prev>>

\* ------------------------------------------------------------- createFile
\* file.create();
FileCreate(p) ==
    /\ pc[p] = "create"
    /\ op[p] = "createFile"
    /\ \E ok \in BOOLEAN : StorageCreate(p, ok)

\* Metadata fmeta(isZarr); writeMetadata(file, fmeta);
FileWriteBegin(p) ==
    /\ pc[p] = "write"
    /\ op[p] = "createFile"
    /\ \E ok \in BOOLEAN : StorageWriteBegin(p, ok)

\* createFile writing its metadata through one handle all callers share:
\* the record lands at the location Shared.
FileWriteEnd_SharedHandle(p) ==
    /\ pc[p] = "writing"
    /\ op[p] = "createFile"
    /\ \E ok \in BOOLEAN :
          /\ IF ok
             THEN /\ Log(p, "write_end")
                  /\ meta' = [meta EXCEPT ![Shared] = WriteGroupMetadata(arg[p].zarr)]
                  /\ result' = [result EXCEPT ![p] = "ok"]
                  /\ pc' = [pc EXCEPT ![p] = "ret"]
             ELSE /\ Throw(p, "StorageFailure")
                  /\ UNCHANGED <<meta, trace>>
          /\ UNCHANGED <<node, op, loc, arg, md, handle, saw, pre, prev>>

FileWriteEnd(p) ==
    /\ pc[p] = "writing"
    /\ op[p] = "createFile"
    /\ \E ok \in BOOLEAN :
          StorageWriteEnd(p, ok, WriteGroupMetadata(arg[p].zarr), "ret")

\* ------------------------------------------------------------ createGroup
\* group.create();
GroupCreate(p) ==
    /\ pc[p] = "create"
    /\ op[p] = "createGroup"
    /\ \E ok \in BOOLEAN : StorageCreate(p, ok)

\* Metadata fmeta(isZarr); writeMetadata(group, fmeta);
GroupWriteBegin(p) ==
    /\ pc[p] = "write"
    /\ op[p] = "createGroup"
    /\ \E ok \in BOOLEAN : StorageWriteBegin(p, ok)

\* createGroup writing Metadata fmeta(true) whatever isZarr is.
GroupWriteEnd_AlwaysZarr(p) ==
    /\ pc[p] = "writing"
    /\ op[p] = "createGroup"
    /\ \E ok \in BOOLEAN :
          StorageWriteEnd(p, ok, WriteGroupMetadata(TRUE), "ret")

GroupWriteEnd(p) ==
    /\ pc[p] = "writing"
    /\ op[p] = "createGroup"
    /\ \E ok \in BOOLEAN :
          StorageWriteEnd(p, ok, WriteGroupMetadata(arg[p].zarr), "ret")

\* ------------------------------------------------------------- the callers
\* One step of caller p, calling on the locations L with the dtypes T and
\* keeping the memories M.
Step(p, L, T, M) ==
    \/ \E l \in L : Call_openDataset(p, l, M)
    \/ \E l \in L, dtype \in T : Call_createDataset(p, l, dtype, M)
    \/ \E l \in L, isZarr \in BOOLEAN : Call_createFile(p, l, isZarr, M)
    \/ \E l \in L, isZarr \in BOOLEAN : Call_createGroup(p, l, isZarr, M)
    \/ OpenExists(p)
    \/ OpenRead(p)
    \/ OpenDispatch(p)
    \/ CreateCreate(p)
    \/ CreateWriteBegin(p)
    \/ CreateWriteEnd(p)
    \/ CreateDispatch(p)
    \/ FileCreate(p)
    \/ FileWriteBegin(p)
    \/ FileWriteEnd(p)
    \/ GroupCreate(p)
    \/ GroupWriteBegin(p)
    \/ GroupWriteEnd(p)

InitCallers ==
    /\ pc = [p \in Procs |-> "idle"]
    /\ op = [p \in Procs |-> "none"]
    /\ loc = [p \in Procs |-> Home(p)]
    /\ arg = [p \in Procs |-> NoArg]
    /\ md = [p \in Procs |-> NoTag]
    /\ result = [p \in Procs |-> "none"]
    /\ handle = [p \in Procs |-> NoHandle]
    /\ trace = [p \in Procs |-> <<>>]
    /\ saw = [p \in Procs |-> NotRead]
    /\ pre = [p \in Procs |-> [node |-> FALSE, meta |-> AbsentMeta]]
    /\ prev = [p \in Procs |-> NoPrev]

InitEmpty ==
    /\ node = [l \in Locs |-> FALSE]
    /\ meta = [l \in Locs |-> AbsentMeta]
    /\ InitCallers

\* The dtypes the concurrent callers create datasets of.
SomeTags == {Tag("float32"), Tag("unicode5")}

\* All callers on one location, concurrently, on a storage that starts empty.
Init == InitEmpty

Next == \E p \in Procs : Step(p, {Shared}, SomeTags, {})

Spec == Init /\ [][Next]_vars

\* Two callers, each on a location of its own.
NextDisjoint ==
    \E p \in Pair : Step(p, {Home(p)}, SomeTags, {"pre"})

SpecDisjoint == InitEmpty /\ [][NextDisjoint]_vars

\* What storage may hold at a location before any call: nothing, a node
\* without metadata, a dataset, a dataset whose dtype string is none of the
\* tag strings, a group.
StoredBefore ==
    { [node |-> FALSE, meta |-> AbsentMeta],
      [node |-> TRUE, meta |-> AbsentMeta],
      [node |-> TRUE, meta |-> DatasetRecord("float32")],
      [node |-> TRUE, meta |-> DatasetRecord("float16")],
      [node |-> TRUE, meta |-> GroupRecord(TRUE)] }

\* One caller, one call after the other, on one location, all dtypes.
InitSeq ==
    /\ \E s \in StoredBefore :
          /\ node = [l \in Locs |-> IF l = Shared THEN s.node ELSE FALSE]
          /\ meta = [l \in Locs |-> IF l = Shared THEN s.meta ELSE AbsentMeta]
    /\ InitCallers

NextSeq == Step(Single, {Shared}, Tags, {"pre", "prev"})

SpecSeq == InitSeq /\ [][NextSeq]_vars

\* ------------------------------------------------------------- properties
Events == {"exists:true", "exists:false", "read", "create", "write_begin",
           "write_end", "dispatch"}
TagStrings == {TagNames[t] : t \in Tags}
StoredRecords ==
    {AbsentMeta, PartialMeta} \cup {DatasetRecord(x) : x \in TagStrings \cup {"float16"}}
        \cup {GroupRecord(z) : z \in BOOLEAN}

TypeOK ==
    /\ node \in [Locs -> BOOLEAN]
    /\ meta \in [Locs -> StoredRecords]
    /\ \A l \in Locs : meta[l].state # "absent" => node[l]
    /\ pc \in [Procs -> {"idle", "exists", "read", "dispatch", "create", "write",
                         "writing", "ret"}]
    /\ op \in [Procs -> {"none", "openDataset", "createDataset", "createFile",
                         "createGroup"}]
    /\ loc \in [Procs -> Locs]
    /\ md \in [Procs -> Tags \cup {NoTag}]
    /\ \A p \in Procs : \A i \in 1..Len(trace[p]) : trace[p][i] \in Events
    /\ \A p \in Procs : pc[p] = "ret" <=> result[p] \notin {"none", "pending"}

CreateCalls == <<"create", "write_begin", "write_end", "dispatch">>
ContainerCalls == <<"create", "write_begin", "write_end">>

\* The metadata record r is a complete dataset record with a known dtype.
ValidDatasetRecord(r) ==
    r.state = "complete" /\ r.kind = "dataset" /\ r.dtype \in TagStrings

\* C1: an openDataset whose exists() was false has thrown NotFound, and that
\* was its only collaborator call: no metadata read, no Dataset constructed.
C1_NotFoundBeforeRead ==
    \A p \in Procs :
        (op[p] = "openDataset" /\ Count(trace[p], "exists:false") > 0) =>
            /\ pc[p] = "ret"
            /\ result[p] = "NotFound"
            /\ trace[p] = <<"exists:false">>
            /\ saw[p] = NotRead
            /\ md[p] = NoTag
            /\ handle[p] = NoHandle

\* An openDataset on a location without a node has returned.
C1_Witness ==
    \E p \in Procs :
        /\ op[p] = "openDataset"
        /\ pc[p] = "ret"
        /\ trace[p] = <<"exists:false">>
        /\ ~node[loc[p]]

\* C2: the collaborator calls of createDataset are create(), the metadata
\* write from begin to end, the Dataset constructor, in that order; when the
\* handle is returned, all of them are done and the location's metadata is
\* not absent from storage.
C2_CreateThenWriteThenHandle ==
    \A p \in Procs :
        op[p] = "createDataset" =>
            /\ IsPrefix(trace[p], CreateCalls)
            /\ handle[p] # NoHandle =>
                  /\ trace[p] = CreateCalls
                  /\ node[loc[p]]
                  /\ meta[loc[p]].state # "absent"

\* A createDataset has returned its handle while another caller is inside
\* a create on the same location.
C2_Witness ==
    \E p \in Procs, q \in Procs :
        /\ p # q
        /\ op[p] = "createDataset" /\ handle[p] # NoHandle
        /\ loc[q] = loc[p] /\ pc[q] \in {"write", "writing"}

\* A createDataset on the location of reader p is under way.
CreateDatasetUnderWay(p) ==
    \E q \in Procs \ {p} :
        /\ op[q] = "createDataset"
        /\ loc[q] = loc[p]
        /\ pc[q] \notin {"idle", "ret"}

C4_CreateThenOpen ==
    \A p \in Procs :
        ( /\ prev[p].op = "createDataset"
          /\ prev[p].result = "ok"
          /\ op[p] = "openDataset"
          /\ loc[p] = prev[p].loc
          /\ pc[p] = "ret" ) =>
            /\ result[p] = "ok"
            /\ md[p] = prev[p].dtype
            /\ handle[p] = CreateSwitch(prev[p].dtype)
            /\ handle[p] \notin {NoHandle, NullPtr}

\* Such an openDataset has returned, for a unicode dtype and on a location
\* that held a dataset of another dtype before.
C4_Witness ==
    \E p \in Procs :
        /\ prev[p].op = "createDataset" /\ prev[p].result = "ok"
        /\ prev[p].dtype = Tag("unicode10")
        /\ op[p] = "openDataset" /\ loc[p] = prev[p].loc
        /\ pc[p] = "ret" /\ result[p] = "ok"
        /\ handle[p] = "UTF32Array<10>"

\* The integer dtypes, whose element type is named after the enumerator.
IntTags == {t \in Tags : t <= Tag("uint64")}

\* The widths of the unicode dtypes, as written in their names.
WidthDigits == <<"1", "2", "3", "4", "5", "6", "7", "8", "9", "10">>

\* What the two switches give the 22 dtypes: a Dataset, never a null
\* pointer, of an element type no other dtype has and the same in both
\* switches; an integer dtype X gives X_t and
\* the unicode dtype of width w gives UTF32Array<w>.
SwitchesTotalAndExact ==
    /\ Cardinality(Tags) = 22
    /\ \A t \in Tags : OpenSwitch(t) \notin {NullPtr, NoHandle}
    /\ \A t \in Tags : CreateSwitch(t) = OpenSwitch(t)
    /\ \A t, u \in Tags : t # u => OpenSwitch(t) # OpenSwitch(u)
    /\ \A t, u \in Tags : t # u => CreateSwitch(t) # CreateSwitch(u)
    /\ \A t \in IntTags : OpenSwitch(t) = TagNames[t] \o "_t"
    /\ \A w \in 1..Len(WidthDigits) :
          /\ TagNames[Tag("unicode1") + w - 1] = "unicode" \o WidthDigits[w]
          /\ OpenSwitch(Tag("unicode1") + w - 1) = "UTF32Array<" \o WidthDigits[w] \o ">"

\* C5: the switches are total and exact over the 22 dtypes, and a handle
\* that openDataset / createDataset returned is of the element type of the
\* dtype in the record read / in the metadata passed.
C5_SwitchTotalAndExact ==
    /\ SwitchesTotalAndExact
    /\ \A p \in Procs :
          /\ (op[p] = "openDataset" /\ result[p] = "ok") =>
                /\ ValidDatasetRecord(saw[p])
                /\ TagNames[md[p]] = saw[p].dtype
                /\ handle[p] = OpenSwitch(md[p])
                /\ handle[p] # NullPtr
          /\ (op[p] = "createDataset" /\ result[p] = "ok") =>
                /\ handle[p] = CreateSwitch(arg[p].dtype)
                /\ handle[p] # NullPtr

\* An openDataset returned the Dataset of a stored unicode5 record.
C5_Witness ==
    \E p \in Procs :
        /\ op[p] = "openDataset" /\ result[p] = "ok"
        /\ saw[p].dtype = "unicode5"
        /\ handle[p] = "UTF32Array<5>"

\* C6: an openDataset that read a complete dataset record whose dtype string
\* is none of the 22 tag strings has thrown MalformedMetadata: it returned
\* no handle, neither one of a default type nor a null one.
C6_UnknownDtypeThrows ==
    \A p \in Procs :
        ( /\ op[p] = "openDataset"
          /\ saw[p].state = "complete"
          /\ saw[p].kind = "dataset"
          /\ saw[p].dtype \notin TagStrings ) =>
            /\ pc[p] = "ret"
            /\ result[p] = "MalformedMetadata"
            /\ handle[p] = NoHandle
            /\ md[p] = NoTag
            /\ Count(trace[p], "dispatch") = 0

\* An openDataset read the record with the dtype string "float16".
C6_Witness ==
    \E p \in Procs :
        /\ op[p] = "openDataset"
        /\ saw[p] = DatasetRecord("float16")
        /\ pc[p] = "ret"

\* The call of p has thrown.
Failed(p) == pc[p] = "ret" /\ result[p] # "ok"

\* The location of p is as it was when p's call began.
Untouched(p) == node[loc[p]] = pre[p].node /\ meta[loc[p]] = pre[p].meta

\* C7 as stated: a call that has thrown left its location as it was.
C7_AllOrNothing == \A p \in Procs : Failed(p) => Untouched(p)

\* C7 amended: a failed openDataset, and a create whose create() failed,
\* left the location as it was; a create whose metadata write failed after
\* create() succeeded left the node in place (no rollback), with the
\* metadata as it was before or incomplete.
C7_FailureLeaves ==
    \A p \in Procs :
        Failed(p) =>
            IF op[p] = "openDataset" \/ trace[p] = <<"create">>
            THEN Untouched(p)
            ELSE /\ trace[p] = <<"create", "write_begin">>
                 /\ node[loc[p]]
                 /\ meta[loc[p]] \in {pre[p].meta, PartialMeta}

\* A createDataset created the node of an empty location and then failed in
\* its metadata write: the node is there without metadata.
C7_Witness ==
    \E p \in Procs :
        /\ op[p] = "createDataset" /\ Failed(p)
        /\ trace[p] = <<"create", "write_begin">>
        /\ ~pre[p].node
        /\ node[loc[p]]
        /\ meta[loc[p]].state # "complete"

\* C8: createFile and createGroup call create() and then write one metadata
\* record, nothing else; they read no dtype and return no Dataset; and on
\* success the node exists and the record is a complete container record
\* whose flavor is the isZarr passed, without a dtype.
C8_ContainerNodeThenFlavor ==
    \A p \in Procs :
        op[p] \in {"createFile", "createGroup"} =>
            /\ IsPrefix(trace[p], ContainerCalls)
            /\ handle[p] = NoHandle
            /\ md[p] = NoTag
            /\ result[p] = "ok" =>
                  /\ trace[p] = ContainerCalls
                  /\ node[loc[p]]
                  /\ meta[loc[p]] = [state |-> "complete", kind |-> "group",
                                     dtype |-> "", zarr |-> arg[p].zarr]

\* A createGroup with isZarr false has succeeded on a location that held a
\* zarr group before.
C8_Witness ==
    \E p \in Procs :
        /\ op[p] = "createGroup" /\ result[p] = "ok"
        /\ ~arg[p].zarr
        /\ pre[p].meta = GroupRecord(TRUE)
        /\ meta[loc[p]] = GroupRecord(FALSE)

\* The record the create call of p writes.
OwnRecord(p) ==
    IF op[p] = "createDataset"
    THEN [state |-> "complete", kind |-> "dataset",
          dtype |-> TagNames[arg[p].dtype], zarr |-> FALSE]
    ELSE [state |-> "complete", kind |-> "group", dtype |-> "", zarr |-> arg[p].zarr]

\* The location of p holds what p's call alone, run on the location as it
\* was when the call began, has made of it so far.
OwnEffectOnly(p) ==
    /\ node[loc[p]] =
          IF Count(trace[p], "create") > 0 /\ ~(Failed(p) /\ trace[p] = <<"create">>)
          THEN TRUE
          ELSE pre[p].node
    /\ IF Count(trace[p], "write_end") > 0
       THEN meta[loc[p]] = OwnRecord(p)
       ELSE IF pc[p] = "writing"
       THEN meta[loc[p]] = PartialMeta
       ELSE IF Failed(p) /\ trace[p] = <<"create", "write_begin">>
       THEN meta[loc[p]] \in {pre[p].meta, PartialMeta}
       ELSE meta[loc[p]] = pre[p].meta
    /\ Count(trace[p], "read") > 0 => saw[p] = pre[p].meta

\* C9: with the two callers on different locations, under every
\* interleaving each location holds exactly what its own caller's call,
\* run alone, makes of it, and a reader read what its own location held:
\* no step of one caller shows in the other's location or outcome.
C9_DisjointLocationsIndependent ==
    \A p \in Pair : loc[p] = Home(p) /\ OwnEffectOnly(p)

\* One caller has created a dataset on its location while the other is in
\* the middle of the metadata write of a createGroup on its own.
C9_Witness ==
    \E p \in Pair, q \in Pair :
        /\ loc[p] # loc[q]
        /\ op[p] = "createDataset" /\ result[p] = "ok"
        /\ op[q] = "createGroup" /\ pc[q] = "writing"
        /\ meta[loc[p]] = OwnRecord(p)
        /\ meta[loc[q]] = PartialMeta

\* The calls a failed call may have made: it ended at the call that failed.
FailedCalls ==
    { <<"exists:false">>, <<"exists:true", "read">>,
      <<"create">>, <<"create", "write_begin">> }

\* C10: a call makes at most one exists(), one create(), one metadata read
\* or write and one switch; openDataset makes no create() and no write;
\* createDataset makes no exists() and no read; and a call that has thrown
\* ended at the collaborator call that failed, constructed no Dataset and
\* returned no handle.
C10_OneShotNoRetry ==
    \A p \in Procs :
        /\ Count(trace[p], "exists:true") + Count(trace[p], "exists:false") <= 1
        /\ Count(trace[p], "create") <= 1
        /\ Count(trace[p], "read") + Count(trace[p], "write_begin") <= 1
        /\ Count(trace[p], "write_end") <= Count(trace[p], "write_begin")
        /\ Count(trace[p], "dispatch") <= 1
        /\ op[p] = "openDataset" =>
              IsPrefix(trace[p], <<"exists:true", "read", "dispatch">>)
                  \/ trace[p] = <<"exists:false">>
        /\ op[p] = "createDataset" => IsPrefix(trace[p], CreateCalls)
        /\ Failed(p) =>
              /\ trace[p] \in FailedCalls
              /\ result[p] \in {"NotFound", "MalformedMetadata", "StorageFailure"}
              /\ handle[p] = NoHandle
        /\ handle[p] # NoHandle => (pc[p] = "ret" /\ result[p] = "ok")

\* A createDataset whose create() failed has thrown StorageFailure while
\* another caller's openDataset failed in its read.
C10_Witness ==
    \E p \in Procs, q \in Procs :
        /\ op[p] = "createDataset" /\ Failed(p)
        /\ trace[p] = <<"create">> /\ result[p] = "StorageFailure"
        /\ op[q] = "openDataset" /\ Failed(q)
        /\ trace[q] = <<"exists:true", "read">>

====
